---- MODULE Spec2Model ----
(***************************************************************************)
(* OTP-Sender (src/queen.js): an HTTP gateway (GET /, POST /send-otp) in   *)
(* front of one WhatsApp connection kept alive by connectToWA.             *)
(*                                                                         *)
(* The process is one event loop.  Every action below is one run of a      *)
(* callback from the point where the loop enters it to its next await (or  *)
(* its return); the awaits are the only places where other callbacks       *)
(* interleave.                                                             *)
(*                                                                         *)
(* Text values are sequences.  A text the program inspects (a phone        *)
(* number, an error message) is the sequence of its characters; a literal  *)
(* the program only copies into a response is a sequence of one token.     *)
(***************************************************************************)
EXTENDS Naturals, Sequences, FiniteSets, TLC

\* ------------------------------------------------------------- bounds
\* connections makeWASocket may create in one run of the model
MaxConns == 2
\* POST /send-otp requests suspended at `await sendMessage` at one time
MaxInflight == 1
\* longest phone number string of the normalisation specification
MaxLen == 3

\* ------------------------------------------------- program constants
\* sockInstance = null
Null == 0
\* setTimeout(..., 1000) in the listen callback
StartDelay == 1000
\* setTimeout(connectToWA, 5000) on close
ReconnectDelay == 5000
\* setTimeout(connectToWA, 10000) in connectToWA's catch
RetryDelay == 10000

VARIABLES
    sockInstance,   \* the global: Null or the id of the published connection
    connState,      \* library side of every connection made by makeWASocket
    nconn,          \* number of connections created so far
    timers,         \* pending setTimeout(connectToWA) timers: their delays
    attempts,       \* connectToWA invocations suspended at an await
    startup,        \* connections whose startup sendMessage is pending
    sends,          \* POST /send-otp handlers suspended at await sendMessage
    resp,           \* the response written last (observation)
    lastSignal,     \* last open/close signal processed (observation)
    everOpened,     \* an open signal has been processed (observation)
    lastCreds       \* the creds.update signal handled last (observation)

vars == <<sockInstance, connState, nconn, timers, attempts, startup, sends,
          resp, lastSignal, everOpened, lastCreds>>

\* the state of the connection manager (everything the gateway must not touch)
managerVars == <<sockInstance, connState, nconn, timers, attempts, startup,
                 lastSignal, everOpened, lastCreds>>

\* ---------------------------------------------------------------- text
Lit(s) == <<s>>

Digits == {"0", "1", "2", "3", "4", "5", "6", "7", "8", "9"}

\* String.prototype.includes: sub occurs in s as a contiguous run
Includes(s, sub) ==
    \E i \in 0..Len(s) :
        /\ i + Len(sub) <= Len(s)
        /\ SubSeq(s, i + 1, i + Len(sub)) = sub

RemoveAt(q, i) == SubSeq(q, 1, i - 1) \o SubSeq(q, i + 1, Len(q))

\* JSON values of the request body fields: absent, a string or a number
JsUndefined == [t |-> "undefined", s |-> <<>>, n |-> 0]
JsString(s) == [t |-> "string", s |-> s, n |-> 0]
JsNumber(n) == [t |-> "number", s |-> <<>>, n |-> n]

\* JavaScript truthiness of such a value: !v is true for undefined, "" and 0
Truthy(v) ==
    \/ v.t = "string" /\ v.s # <<>>
    \/ v.t = "number" /\ v.n # 0

\* the substrings the catch block searches error.message for
NotAuthorizedText == <<"N","o","t"," ","a","u","t","h","o","r","i","z","e","d">>
NotRegisteredText == <<"n","o","t"," ","r","e","g","i","s","t","e","r","e","d">>
InvalidText == <<"i","n","v","a","l","i","d">>

\* the two fixed details texts of the catch block
AuthRequiredMsg == Lit("WhatsApp not authenticated. Please scan QR code.")
InvalidNumberMsg == Lit("Invalid phone number or number not registered on WhatsApp")

\* message of the TypeError thrown by number.replace(...) on a non-string
ReplaceTypeError ==
    <<"n","u","m","b","e","r",".","r","e","p","l","a","c","e"," ","i","s"," ",
      "n","o","t"," ","a"," ","f","u","n","c","t","i","o","n">>

\* (variant) the pattern without its g flag: only the first match is removed
CleanNumber_FirstOnly(number) ==
    LET idx == {i \in 1..Len(number) : number[i] \notin Digits}
    IN  IF idx = {}
        THEN number
        ELSE RemoveAt(number, CHOOSE i \in idx : \A j \in idx : i <= j)

\* number.replace(/[^0-9]/g, "")
CleanNumber(number) == SelectSeq(number, LAMBDA c : c \in Digits)

\* cleanNumber + "@s.whatsapp.net"
Jid(number) == CleanNumber(number) \o Lit("@s.whatsapp.net")

\* ---------------------------------------------------------- the inputs
ExampleNumber ==
    <<"+","1"," ","(","5","5","5",")"," ","1","2","3","-","4","5","6","7">>

\* request bodies the gateway is driven with
SampleNumbers ==
    {JsUndefined, JsString(<<>>), JsString(ExampleNumber), JsNumber(7)}

SampleMessages ==
    {JsUndefined, JsString(<<>>), JsString(Lit("Your OTP is 123456"))}

\* every string of at most MaxLen characters over a digit/non-digit alphabet
NumberChars == {"1", "2", "+"}

BoundedNumbers ==
    {JsString(s) : s \in UNION {[1..k -> NumberChars] : k \in 0..MaxLen}}

\* messages of the errors the library's sendMessage rejects with
ErrorMessages ==
    {NotAuthorizedText,
     <<"n","o","t"," ","a","u","t","h","o","r","i","z","e","d">>,
     <<"n","u","m","b","e","r"," ","n","o","t"," ","r","e","g","i","s","t","e","r","e","d">>,
     <<"i","n","v","a","l","i","d"," ","j","i","d">>,
     <<"N","o","t"," ","a","u","t","h","o","r","i","z","e","d",","," ","i","n","v","a","l","i","d">>,
     <<"C","o","n","n","e","c","t","i","o","n"," ","C","l","o","s","e","d">>}

Conns == 1..MaxConns

\* what a request saw when it arrived
Ctx ==
    [handle |-> sockInstance # Null,
     window |-> lastSignal = "close",
     opened |-> everOpened]

NoError == [thrown |-> FALSE, message |-> <<>>]
Thrown(m) == [thrown |-> TRUE, message |-> m]

\* no creds.update signal has been handled yet
NoCreds == [from |-> Null, state |-> "none", saver |-> Null, calls |-> 0]

\* ------------------------------------------------------- initial state
\* The module has been loaded and app.listen's callback has run: the
\* global is null and the first connectToWA is on a 1000 ms timer.
Init ==
    /\ sockInstance = Null
    /\ connState = [c \in Conns |-> "none"]
    /\ nconn = 0
    /\ timers = <<StartDelay>>
    /\ attempts = <<>>
    /\ startup = {}
    /\ sends = <<>>
    /\ resp = [op |-> "none"]
    /\ lastSignal = "none"
    /\ everOpened = FALSE
    /\ lastCreds = NoCreds

\* ------------------------------------------------- connection manager
\* A connectToWA timer fires: connectToWA runs to its first await.
TimerFired(i) ==
    /\ i \in 1..Len(timers)
    /\ timers' = RemoveAt(timers, i)
    /\ attempts' = Append(attempts, "fetchVersion")
    /\ UNCHANGED <<sockInstance, connState, nconn, startup, sends, resp,
                   lastSignal, everOpened, lastCreds>>

\* fetchLatestBaileysVersion resolved: on to await useMultiFileAuthState.
VersionFetched(i) ==
    /\ i \in 1..Len(attempts)
    /\ attempts[i] = "fetchVersion"
    /\ attempts' = [attempts EXCEPT ![i] = "authState"]
    /\ UNCHANGED <<sockInstance, connState, nconn, timers, startup, sends,
                   resp, lastSignal, everOpened, lastCreds>>

\* (variant) the retry of the catch block sits in a `finally`: it is also
\* scheduled when the connection was created
SocketCreated_AndRetry(i) ==
    /\ i \in 1..Len(attempts)
    /\ attempts[i] = "authState"
    /\ nconn < MaxConns
    /\ nconn' = nconn + 1
    /\ connState' = [connState EXCEPT ![nconn + 1] = "connecting"]
    /\ attempts' = RemoveAt(attempts, i)
    /\ timers' = Append(timers, RetryDelay)
    /\ UNCHANGED <<sockInstance, startup, sends, resp, lastSignal,
                   everOpened, lastCreds>>

\* useMultiFileAuthState resolved: makeWASocket creates the connection, the
\* two listeners are registered and connectToWA returns.
SocketCreated(i) ==
    /\ i \in 1..Len(attempts)
    /\ attempts[i] = "authState"
    /\ nconn < MaxConns
    /\ nconn' = nconn + 1
    /\ connState' = [connState EXCEPT ![nconn + 1] = "connecting"]
    /\ attempts' = RemoveAt(attempts, i)
    /\ UNCHANGED <<sockInstance, timers, startup, sends, resp, lastSignal,
                   everOpened, lastCreds>>

\* (variant) the catch only logs
ConnectFailed_NoRetry(i) ==
    /\ i \in 1..Len(attempts)
    /\ attempts' = RemoveAt(attempts, i)
    /\ UNCHANGED <<sockInstance, connState, nconn, timers, startup, sends,
                   resp, lastSignal, everOpened, lastCreds>>

\* An await (or makeWASocket) throws: the catch logs and schedules a retry.
ConnectFailed(i) ==
    /\ i \in 1..Len(attempts)
    /\ attempts' = RemoveAt(attempts, i)
    /\ timers' = Append(timers, RetryDelay)
    /\ UNCHANGED <<sockInstance, connState, nconn, startup, sends, resp,
                   lastSignal, everOpened, lastCreds>>

\* (variant) the reconnect timer is set twice for one close signal
ConnClose_Twice(c) ==
    /\ c \in Conns
    /\ connState[c] \in {"connecting", "open"}
    /\ connState' = [connState EXCEPT ![c] = "closed"]
    /\ timers' = timers \o <<ReconnectDelay, ReconnectDelay>>
    /\ lastSignal' = "close"
    /\ UNCHANGED <<sockInstance, nconn, attempts, startup, sends, resp,
                   everOpened, lastCreds>>

\* (variant) the close handler clears the handle of the closed connection
ConnClose_ClearsHandle(c) ==
    /\ c \in Conns
    /\ connState[c] \in {"connecting", "open"}
    /\ connState' = [connState EXCEPT ![c] = "closed"]
    /\ timers' = Append(timers, ReconnectDelay)
    /\ lastSignal' = "close"
    /\ sockInstance' = IF sockInstance = c THEN Null ELSE sockInstance
    /\ UNCHANGED <<nconn, attempts, startup, sends, resp,
                   everOpened, lastCreds>>

\* connection.update with connection === "close".  The library emits it once
\* per connection, as its last event (it then drops the listeners).
ConnClose(c) ==
    /\ c \in Conns
    /\ connState[c] \in {"connecting", "open"}
    /\ connState' = [connState EXCEPT ![c] = "closed"]
    /\ timers' = Append(timers, ReconnectDelay)
    /\ lastSignal' = "close"
    /\ UNCHANGED <<sockInstance, nconn, attempts, startup, sends, resp,
                   everOpened, lastCreds>>

\* (variant) the open handler forgets `sockInstance = conn`
ConnOpen_NoPublish(c, userOk) ==
    /\ c \in Conns
    /\ connState[c] = "connecting"
    /\ connState' = [connState EXCEPT ![c] = "open"]
    /\ startup' = IF userOk THEN startup \cup {c} ELSE startup
    /\ lastSignal' = "open"
    /\ everOpened' = TRUE
    /\ UNCHANGED <<sockInstance, nconn, timers, attempts, sends, resp, lastCreds>>

\* connection.update with connection === "open": the handle is published and
\* the startup message is sent inside its own try/catch.  Reading
\* conn.user.id may throw (userOk false): then nothing is sent.
ConnOpen(c, userOk) ==
    /\ c \in Conns
    /\ connState[c] = "connecting"
    /\ connState' = [connState EXCEPT ![c] = "open"]
    /\ sockInstance' = c
    /\ startup' = IF userOk THEN startup \cup {c} ELSE startup
    /\ lastSignal' = "open"
    /\ everOpened' = TRUE
    /\ UNCHANGED <<nconn, timers, attempts, sends, resp, lastCreds>>

\* connection.update with any other payload ("connecting", a QR code, ...):
\* neither branch runs; a QR code is only logged.
ConnUpdateOther(c) ==
    /\ c \in Conns
    /\ connState[c] \in {"connecting", "open"}
    /\ UNCHANGED vars

\* (variant) saveCreds is one shared variable, overwritten by every
\* connectToWA: a signal of an older connection runs the newest callback
CredsUpdate_LatestSaver(c) ==
    /\ c \in Conns
    /\ connState[c] # "none"
    /\ lastCreds' = [from |-> c, state |-> connState[c], saver |-> nconn,
                     calls |-> 1]
    /\ UNCHANGED <<sockInstance, connState, nconn, timers, attempts, startup,
                   sends, resp, lastSignal, everOpened>>

\* creds.update emitted by connection c: the listener registered for it is
\* the saveCreds returned to the connectToWA call that created c.  The
\* listener is never removed, so it also runs for a closed connection.
CredsUpdate(c) ==
    /\ c \in Conns
    /\ connState[c] # "none"
    /\ lastCreds' = [from |-> c, state |-> connState[c], saver |-> c,
                     calls |-> 1]
    /\ UNCHANGED <<sockInstance, connState, nconn, timers, attempts, startup,
                   sends, resp, lastSignal, everOpened>>

\* (variant) a failed startup message is treated as a lost connection
StartupSettled_Reconnect(c) ==
    /\ c \in startup
    /\ startup' = startup \ {c}
    /\ timers' = Append(timers, ReconnectDelay)
    /\ UNCHANGED <<sockInstance, connState, nconn, attempts, sends,
                   resp, lastSignal, everOpened, lastCreds>>

\* The startup sendMessage resolves, or rejects into the inner catch, which
\* only logs.
StartupSettled(c) ==
    /\ c \in startup
    /\ startup' = startup \ {c}
    /\ UNCHANGED <<sockInstance, connState, nconn, timers, attempts, sends,
                   resp, lastSignal, everOpened, lastCreds>>

\* --------------------------------------------------------- HTTP gateway
\* GET /
HealthCheck ==
    /\ resp' = [op |-> "GET",
                status |-> 200,
                body |-> [status |-> Lit("online"),
                          service |-> Lit("XPROVerce WhatsApp OTP Server"),
                          whatsapp |-> IF sockInstance # Null
                                       THEN Lit("connected")
                                       ELSE Lit("connecting")],
                ctx |-> Ctx,
                responses |-> 1]
    /\ UNCHANGED <<sockInstance, connState, nconn, timers, attempts, startup,
                   sends, lastSignal, everOpened, lastCreds>>

\* (variant) the catch block without its "Not authorized" branch
CatchResponse_NoAuthBranch(message) ==
    IF Includes(message, NotRegisteredText) \/ Includes(message, InvalidText)
    THEN [status |-> 400,
          body |-> [error |-> Lit("Failed to send message"),
                    details |-> InvalidNumberMsg]]
    ELSE [status |-> 500,
          body |-> [error |-> Lit("Failed to send message"),
                    details |-> message]]

\* (variant) the catch block hides the text of an unclassified error
CatchResponse_GenericDetails(message) ==
    IF Includes(message, NotAuthorizedText)
    THEN [status |-> 401,
          body |-> [error |-> Lit("Failed to send message"),
                    details |-> AuthRequiredMsg]]
    ELSE IF Includes(message, NotRegisteredText) \/ Includes(message, InvalidText)
    THEN [status |-> 400,
          body |-> [error |-> Lit("Failed to send message"),
                    details |-> InvalidNumberMsg]]
    ELSE [status |-> 500,
          body |-> [error |-> Lit("Failed to send message"),
                    details |-> Lit("Internal error")]]

\* (variant) the catch block without `|| error.message.includes("invalid")`
CatchResponse_NoInvalid(message) ==
    IF Includes(message, NotAuthorizedText)
    THEN [status |-> 401,
          body |-> [error |-> Lit("Failed to send message"),
                    details |-> AuthRequiredMsg]]
    ELSE IF Includes(message, NotRegisteredText)
    THEN [status |-> 400,
          body |-> [error |-> Lit("Failed to send message"),
                    details |-> InvalidNumberMsg]]
    ELSE [status |-> 500,
          body |-> [error |-> Lit("Failed to send message"),
                    details |-> message]]

\* the catch block of POST /send-otp: status and body for error.message
CatchResponse(message) ==
    IF Includes(message, NotAuthorizedText)
    THEN [status |-> 401,
          body |-> [error |-> Lit("Failed to send message"),
                    details |-> AuthRequiredMsg]]
    ELSE IF Includes(message, NotRegisteredText) \/ Includes(message, InvalidText)
    THEN [status |-> 400,
          body |-> [error |-> Lit("Failed to send message"),
                    details |-> InvalidNumberMsg]]
    ELSE [status |-> 500,
          body |-> [error |-> Lit("Failed to send message"),
                    details |-> message]]

\* (variant) && in place of ||
FieldsMissing_Both(number, message) == ~Truthy(number) /\ ~Truthy(message)

\* !number || !message
FieldsMissing(number, message) == ~Truthy(number) \/ ~Truthy(message)

\* res.status(400).json({ error: "number & message required", ... })
FieldsMissingResponse ==
    [status |-> 400,
     body |-> [error |-> Lit("number & message required")]]

\* (variant) the precondition failure answered as a generic server error
NotConnectedResponse_500 ==
    [status |-> 500,
     body |-> [error |-> Lit("WhatsApp not connected yet"),
               message |-> Lit("Please wait for WhatsApp connection to establish")]]

\* res.status(503).json({ error: "WhatsApp not connected yet", ... })
NotConnectedResponse ==
    [status |-> 503,
     body |-> [error |-> Lit("WhatsApp not connected yet"),
               message |-> Lit("Please wait for WhatsApp connection to establish")]]

\* (variant) `to` echoes the address instead of the digits
SuccessResponse_EchoJid(cleanNumber) ==
    [status |-> 200,
     body |-> [ok |-> TRUE,
               message |-> Lit("OTP sent successfully"),
               to |-> cleanNumber \o Lit("@s.whatsapp.net")]]

\* res.json({ ok: true, message: "OTP sent successfully", to: cleanNumber })
SuccessResponse(cleanNumber) ==
    [status |-> 200,
     body |-> [ok |-> TRUE,
               message |-> Lit("OTP sent successfully"),
               to |-> cleanNumber]]

\* a response of POST /send-otp, with what the request was and saw
PostResponse(r, number, message, ctx, cause, calls) ==
    [op |-> "POST",
     status |-> r.status,
     body |-> r.body,
     number |-> number,
     message |-> message,
     ctx |-> ctx,
     cause |-> cause,
     calls |-> calls,
     responses |-> 1]

\* (variant) the connection check comes before the field validation
PostSendOtp_ConnFirst(number, message) ==
    IF sockInstance = Null
    THEN /\ resp' = PostResponse(NotConnectedResponse,
                                 number, message, Ctx, NoError, 0)
         /\ UNCHANGED <<sockInstance, connState, nconn, timers, attempts,
                        startup, sends, lastSignal, everOpened, lastCreds>>
    ELSE IF FieldsMissing(number, message)
    THEN /\ resp' = PostResponse(FieldsMissingResponse,
                                 number, message, Ctx, NoError, 0)
         /\ UNCHANGED <<sockInstance, connState, nconn, timers, attempts,
                        startup, sends, lastSignal, everOpened, lastCreds>>
    ELSE IF number.t # "string"
    THEN /\ resp' = PostResponse(CatchResponse(ReplaceTypeError),
                                 number, message, Ctx,
                                 Thrown(ReplaceTypeError), 0)
         /\ UNCHANGED <<sockInstance, connState, nconn, timers, attempts,
                        startup, sends, lastSignal, everOpened, lastCreds>>
    ELSE /\ Len(sends) < MaxInflight
         /\ sends' = Append(sends,
                [number |-> number,
                 message |-> message,
                 ctx |-> Ctx,
                 conn |-> sockInstance,
                 stale |-> connState[sockInstance] = "closed",
                 cleanNumber |-> CleanNumber(number.s),
                 jid |-> Jid(number.s),
                 calls |-> 1])
         /\ UNCHANGED <<sockInstance, connState, nconn, timers, attempts,
                        startup, resp, lastSignal, everOpened, lastCreds>>

\* POST /send-otp from its entry to `await sockInstance.sendMessage(...)`
PostSendOtp(number, message) ==
    IF FieldsMissing(number, message)
    THEN /\ resp' = PostResponse(FieldsMissingResponse,
                                 number, message, Ctx, NoError, 0)
         /\ UNCHANGED <<sockInstance, connState, nconn, timers, attempts,
                        startup, sends, lastSignal, everOpened, lastCreds>>
    ELSE IF sockInstance = Null
    THEN /\ resp' = PostResponse(NotConnectedResponse,
                                 number, message, Ctx, NoError, 0)
         /\ UNCHANGED <<sockInstance, connState, nconn, timers, attempts,
                        startup, sends, lastSignal, everOpened, lastCreds>>
    ELSE IF number.t # "string"
    THEN \* number.replace is not a function: straight into the catch
         /\ resp' = PostResponse(CatchResponse(ReplaceTypeError),
                                 number, message, Ctx,
                                 Thrown(ReplaceTypeError), 0)
         /\ UNCHANGED <<sockInstance, connState, nconn, timers, attempts,
                        startup, sends, lastSignal, everOpened, lastCreds>>
    ELSE /\ Len(sends) < MaxInflight
         /\ sends' = Append(sends,
                [number |-> number,
                 message |-> message,
                 ctx |-> Ctx,
                 conn |-> sockInstance,
                 stale |-> connState[sockInstance] = "closed",
                 cleanNumber |-> CleanNumber(number.s),
                 jid |-> Jid(number.s),
                 calls |-> 1])
         /\ UNCHANGED <<sockInstance, connState, nconn, timers, attempts,
                        startup, resp, lastSignal, everOpened, lastCreds>>

\* sendMessage resolved: the handler resumes and answers 200.
SendResolved(i) ==
    /\ i \in 1..Len(sends)
    /\ resp' = PostResponse(SuccessResponse(sends[i].cleanNumber),
                            sends[i].number, sends[i].message, sends[i].ctx,
                            NoError, sends[i].calls)
    /\ sends' = RemoveAt(sends, i)
    /\ UNCHANGED <<sockInstance, connState, nconn, timers, attempts, startup,
                   lastSignal, everOpened, lastCreds>>

\* (variant) the catch drops the handle the send failed on
SendRejected_DropHandle(i, message) ==
    /\ i \in 1..Len(sends)
    /\ resp' = PostResponse(CatchResponse(message),
                            sends[i].number, sends[i].message, sends[i].ctx,
                            Thrown(message), sends[i].calls)
    /\ sends' = RemoveAt(sends, i)
    /\ sockInstance' = Null
    /\ UNCHANGED <<connState, nconn, timers, attempts, startup,
                   lastSignal, everOpened, lastCreds>>

\* sendMessage rejected with an Error: the handler resumes in its catch.
SendRejected(i, message) ==
    /\ i \in 1..Len(sends)
    /\ resp' = PostResponse(CatchResponse(message),
                            sends[i].number, sends[i].message, sends[i].ctx,
                            Thrown(message), sends[i].calls)
    /\ sends' = RemoveAt(sends, i)
    /\ UNCHANGED <<sockInstance, connState, nconn, timers, attempts, startup,
                   lastSignal, everOpened, lastCreds>>

\* ------------------------------------------------------ specifications
Manager ==
    \/ \E i \in 1..Len(timers) : TimerFired(i)
    \/ \E i \in 1..Len(attempts) : VersionFetched(i)
    \/ \E i \in 1..Len(attempts) : SocketCreated(i)
    \/ \E i \in 1..Len(attempts) : ConnectFailed(i)
    \/ \E c \in Conns : ConnClose(c)
    \/ \E c \in Conns, userOk \in BOOLEAN : ConnOpen(c, userOk)
    \/ \E c \in Conns : ConnUpdateOther(c)
    \/ \E c \in Conns : StartupSettled(c)

Next ==
    \/ Manager
    \/ HealthCheck
    \/ \E number \in SampleNumbers, message \in SampleMessages :
            PostSendOtp(number, message)
    \/ \E i \in 1..Len(sends) : SendResolved(i)
    \/ \E i \in 1..Len(sends), message \in ErrorMessages :
            SendRejected(i, message)

Spec == Init /\ [][Next]_vars

\* The connection manager alone, with the credential signals of its
\* connections.  (Handling creds.update reads and writes nothing the gateway
\* or the connection.update handler uses, so it is left out of Next.)
NextManager ==
    \/ Manager
    \/ \E c \in Conns : CredsUpdate(c)

\* A timer set with setTimeout fires: the event loop runs every due timer,
\* whatever else is queued.
TimerFires == \E i \in 1..Len(timers) : TimerFired(i)

SpecManagerFair == Init /\ [][NextManager]_vars /\ WF_vars(TimerFires)

\* The gateway alone, one request at a time, on a connection that has opened
\* (the state after the first open signal and its startup message), driven
\* with every number string of at most MaxLen characters.
InitOpen ==
    /\ sockInstance = 1
    /\ connState = [c \in Conns |-> IF c = 1 THEN "open" ELSE "none"]
    /\ nconn = 1
    /\ timers = <<>>
    /\ attempts = <<>>
    /\ startup = {}
    /\ sends = <<>>
    /\ resp = [op |-> "none"]
    /\ lastSignal = "open"
    /\ everOpened = TRUE
    /\ lastCreds = NoCreds

NextGateway ==
    \/ \E number \in BoundedNumbers :
            /\ sends = <<>>
            /\ PostSendOtp(number, JsString(Lit("Your OTP is 123456")))
    \/ SendResolved(1)
    \/ \E message \in ErrorMessages : SendRejected(1, message)

SpecGateway == InitOpen /\ [][NextGateway]_vars

\* =============================================================== claims
\* the digit characters of a string, in order (defined by recursion on the
\* string, independently of CleanNumber)
RECURSIVE DigitsOf(_)
DigitsOf(s) ==
    IF s = <<>>
    THEN <<>>
    ELSE IF Head(s) \in Digits
         THEN <<Head(s)>> \o DigitsOf(Tail(s))
         ELSE DigitsOf(Tail(s))

\* the last response answers a POST /send-otp whose two fields were present
\* strings
AnsweredValidPost ==
    /\ resp.op = "POST"
    /\ resp.number.t = "string"
    /\ Truthy(resp.number)
    /\ Truthy(resp.message)

\* the last response answers a POST /send-otp whose sendMessage threw
AnsweredFailedSend ==
    /\ resp.op = "POST"
    /\ resp.cause.thrown
    /\ resp.calls = 1

LowerNotAuthorizedText ==
    <<"n","o","t"," ","a","u","t","h","o","r","i","z","e","d">>

\* C1: a POST /send-otp with both fields present that arrives after a close
\* signal and before the next open signal is answered 503, and sendMessage
\* is not invoked for it (so never on the closed connection).
C1_ReconnectWindow503 ==
    /\ \A i \in 1..Len(sends) : ~sends[i].ctx.window
    /\ (AnsweredValidPost /\ resp.ctx.window)
            => (resp.status = 503 /\ resp.calls = 0)

\* C2: a POST /send-otp whose number or message is missing or empty is
\* answered 400 whatever the connection state, and sendMessage is not invoked
\* for it.
C2_MissingField400 ==
    /\ \A i \in 1..Len(sends) :
            Truthy(sends[i].number) /\ Truthy(sends[i].message)
    /\ (resp.op = "POST" /\ (~Truthy(resp.number) \/ ~Truthy(resp.message)))
            => (resp.status = 400 /\ resp.calls = 0)

C2_Witness ==
    /\ resp.op = "POST"
    /\ resp.status = 400
    /\ Truthy(resp.number)
    /\ resp.message = JsString(<<>>)
    /\ resp.ctx.handle

\* C3: a POST /send-otp with both fields present that is handled while
\* sockInstance is null is answered 503, and sendMessage is not invoked for it.
C3_NoHandle503 ==
    /\ \A i \in 1..Len(sends) : sends[i].ctx.handle
    /\ (/\ resp.op = "POST"
        /\ Truthy(resp.number)
        /\ Truthy(resp.message)
        /\ ~resp.ctx.handle)
            => (resp.status = 503 /\ resp.calls = 0)

C3_Witness ==
    /\ AnsweredValidPost
    /\ ~resp.ctx.handle
    /\ resp.status = 503

\* C4 (as stated): a send failure whose message contains "not authorized" is
\* answered 401 with the authentication-required details.
C4_LowerCase401 ==
    (AnsweredFailedSend /\ Includes(resp.cause.message, LowerNotAuthorizedText))
        => (resp.status = 401 /\ resp.body.details = AuthRequiredMsg)

\* C4 (amended): a send failure whose message contains "Not authorized",
\* with a capital N (the match is case-sensitive), is answered 401 with the
\* authentication-required details.
C4_NotAuthorized401 ==
    (AnsweredFailedSend /\ Includes(resp.cause.message, NotAuthorizedText))
        => (resp.status = 401 /\ resp.body.details = AuthRequiredMsg)

C4_Witness ==
    /\ AnsweredFailedSend
    /\ resp.cause.message = NotAuthorizedText
    /\ resp.status = 401

\* C5: every error thrown by the send attempt is answered with one response
\* of status 401, 400 or 500; an error containing none of the three searched
\* substrings is answered 500 with the error's own text as details; the
\* request made one sendMessage call and is not in flight again.
C5_SendErrorClassified ==
    AnsweredFailedSend =>
        /\ resp.status \in {401, 400, 500}
        /\ resp.responses = 1
        /\ (/\ ~Includes(resp.cause.message, NotAuthorizedText)
            /\ ~Includes(resp.cause.message, NotRegisteredText)
            /\ ~Includes(resp.cause.message, InvalidText))
                => (resp.status = 500 /\ resp.body.details = resp.cause.message)
        /\ \A i \in 1..Len(sends) : sends[i].calls = 1

C5_Witness ==
    /\ AnsweredFailedSend
    /\ resp.status = 500
    /\ resp.body.details =
            <<"C","o","n","n","e","c","t","i","o","n"," ","C","l","o","s","e","d">>

\* C6 (as stated): a send failure whose message contains "not registered" or
\* "invalid" is answered 400.
C6_NotRegistered400 ==
    (/\ AnsweredFailedSend
     /\ \/ Includes(resp.cause.message, NotRegisteredText)
        \/ Includes(resp.cause.message, InvalidText))
        => resp.status = 400

\* C6 (amended): a send failure whose message contains "not registered" or
\* "invalid" and does not contain "Not authorized" is answered 400.
C6_NotRegisteredOnly400 ==
    (/\ AnsweredFailedSend
     /\ \/ Includes(resp.cause.message, NotRegisteredText)
        \/ Includes(resp.cause.message, InvalidText)
     /\ ~Includes(resp.cause.message, NotAuthorizedText))
        => resp.status = 400

C6_Witness ==
    /\ AnsweredFailedSend
    /\ resp.cause.message = <<"i","n","v","a","l","i","d"," ","j","i","d">>
    /\ resp.status = 400

\* C7: a close signal schedules exactly one reconnect attempt, with the
\* 5000 ms delay, and at no time is more than one attempt pending.
C7_OneReconnectPending ==
    /\ [](Len(timers) <= 1)
    /\ [][(\E c \in Conns : connState[c] # "closed" /\ connState'[c] = "closed")
            => timers' = Append(timers, ReconnectDelay)]_vars

C7_Witness ==
    /\ timers = <<ReconnectDelay>>
    /\ lastSignal = "close"
    /\ connState[2] = "closed"

\* C8: the address handed to sendMessage is the digits of the number, in
\* order, every other character removed, followed by "@s.whatsapp.net".
C8_JidIsDigitsPlusSuffix ==
    \A i \in 1..Len(sends) :
        sends[i].jid = DigitsOf(sends[i].number.s) \o Lit("@s.whatsapp.net")

C8_Witness ==
    /\ Len(sends) = 1
    /\ sends[1].number.s = <<"+", "2", "+">>
    /\ sends[1].jid = <<"2", "@s.whatsapp.net">>

\* C9: a request with both fields present, handled with a handle set, whose
\* send resolves is answered 200 with ok true and `to` the digits of the
\* requested number, after one sendMessage call.
C9_Success200 ==
    (resp.op = "POST" /\ resp.ctx.handle /\ Truthy(resp.number)
        /\ Truthy(resp.message) /\ resp.number.t = "string"
        /\ ~resp.cause.thrown)
        => /\ resp.status = 200
           /\ resp.body.ok = TRUE
           /\ resp.body.to = DigitsOf(resp.number.s)
           /\ resp.calls = 1

C9_Witness ==
    /\ resp.op = "POST"
    /\ resp.status = 200
    /\ resp.number.s = ExampleNumber
    /\ resp.body.to = <<"1","5","5","5","1","2","3","4","5","6","7">>

\* C10: GET / reports "connecting" as long as no open signal has been
\* processed and "connected" from then on, and handling it changes nothing
\* but the response.
C10_HealthReportsConnection ==
    /\ [](resp.op = "GET" =>
            resp.body.whatsapp = IF resp.ctx.opened
                                 THEN Lit("connected")
                                 ELSE Lit("connecting"))
    /\ [][(resp'.op = "GET" /\ resp' # resp)
            => UNCHANGED <<managerVars, sends>>]_vars

C10_Witness ==
    /\ resp.op = "GET"
    /\ resp.ctx.opened
    /\ resp.ctx.window
    /\ resp.body.whatsapp = Lit("connected")

\* C11: from a close signal until the next open signal no handle is
\* published, and GET / reports "connecting" throughout that window.
C11_ClearedOnClose ==
    /\ lastSignal = "close" => sockInstance = Null
    /\ (resp.op = "GET" /\ resp.ctx.window)
            => resp.body.whatsapp = Lit("connecting")

\* connections that have been created and have not emitted close
Unclosed == {c \in Conns : connState[c] \in {"connecting", "open"}}

\* C12: connect attempts are strictly sequential: a reconnect is pending or
\* running only when the previous attempt's connection has closed (or the
\* attempt failed), so there are never two attempts, two un-closed
\* connections, or an attempt beside an un-closed connection.
C12_SequentialAttempts ==
    Len(timers) + Len(attempts) + Cardinality(Unclosed) <= 1

C12_Witness ==
    /\ attempts = <<"authState">>
    /\ connState[1] = "closed"
    /\ everOpened

\* C13: at most one handle is live at any time, and when a replacement
\* handle is written to sockInstance the reference had been cleared before.
C13_DiscardBeforeReplace ==
    /\ [](Cardinality(Unclosed) <= 1)
    /\ [][(sockInstance' # sockInstance /\ sockInstance' # Null)
            => sockInstance = Null]_vars

\* C14: every failed connect attempt and every close signal schedules a new
\* attempt, every scheduled attempt is eventually started, and while no
\* connection is open an attempt is always pending, running or awaiting the
\* outcome of its connection.
C14_RetryForever ==
    /\ [][(\/ Len(attempts') < Len(attempts) /\ nconn' = nconn
           \/ \E c \in Conns : connState[c] # "closed" /\ connState'[c] = "closed")
            => Len(timers') = Len(timers) + 1]_vars
    /\ (timers # <<>>) ~> (attempts # <<>>)
    /\ []((\A c \in Conns : connState[c] # "open")
            => \/ timers # <<>>
               \/ attempts # <<>>
               \/ \E c \in Conns : connState[c] = "connecting")

C14_Witness ==
    /\ timers = <<RetryDelay>>
    /\ connState[1] = "closed"
    /\ connState[2] = "none"

\* C17: a creds.update signal of a connection, whatever that connection's
\* state, runs the save callback of that same connection once.
C17_CredsSavedOnce ==
    lastCreds.from # Null =>
        /\ lastCreds.saver = lastCreds.from
        /\ lastCreds.calls = 1

C17_Witness ==
    /\ lastCreds.from = 1
    /\ lastCreds.state = "closed"
    /\ lastCreds.saver = 1
    /\ connState[2] = "open"

\* C15: the open handler publishes the connection it was registered on;
\* whether the startup message could be sent or not, it schedules no
\* reconnect, and the settling of a pending startup message (resolved or
\* rejected) changes nothing but that it is no longer pending.
C15_StartupFailureContained ==
    /\ [][\A c \in Conns :
            (connState[c] = "connecting" /\ connState'[c] = "open")
                => /\ sockInstance' = c
                   /\ UNCHANGED <<timers, attempts, nconn, sends, resp>>]_vars
    /\ [][(startup' # startup /\ startup' \subseteq startup)
            => UNCHANGED <<sockInstance, connState, nconn, timers, attempts,
                           sends, resp, lastSignal, everOpened,
                           lastCreds>>]_vars

C15_Witness ==
    /\ sockInstance = 2
    /\ connState[2] = "open"
    /\ startup = {}
    /\ timers = <<>>
    /\ attempts = <<>>

\* C16: sockInstance has one writer: it changes only in the open handler of
\* a connection, and a step of GET / or POST /send-otp (one that writes a
\* response or suspends or resumes a send) leaves the handle and the rest of
\* the connection manager's state as it was.
C16_SingleWriter ==
    /\ [][(resp' # resp \/ sends' # sends) => UNCHANGED managerVars]_vars
    /\ [][sockInstance' # sockInstance
            => \E c \in Conns : /\ connState[c] = "connecting"
                                /\ connState'[c] = "open"
                                /\ sockInstance' = c]_vars

C16_Witness ==
    /\ resp.op = "POST"
    /\ resp.cause.thrown
    /\ resp.calls = 1
    /\ resp.status = 500
    /\ sockInstance # Null

\* C18: once an open signal has been processed sockInstance is never null
\* again, whatever closes, fails or is requested afterwards: no POST /send-otp
\* with both fields present is answered 503 from then on, and no GET /
\* reports "connecting".
C18_HandleMonotone ==
    /\ [](everOpened => sockInstance # Null)
    /\ [][sockInstance # Null => sockInstance' # Null]_vars
    /\ []((/\ resp.op = "POST"
           /\ resp.ctx.opened
           /\ Truthy(resp.number)
           /\ Truthy(resp.message)) => resp.status # 503)
    /\ []((resp.op = "GET" /\ resp.ctx.opened)
            => resp.body.whatsapp # Lit("connecting"))

C18_Witness ==
    /\ everOpened
    /\ lastSignal = "close"
    /\ sockInstance = 1
    /\ connState[1] = "closed"
    /\ resp.op = "POST"
    /\ resp.ctx.window
    /\ resp.status = 200

\* C19: field validation comes before the connection check, and the check
\* and the sendMessage call are one step: a request missing a field while no
\* handle is set is answered 400, and every sendMessage call of a request is
\* made on a connection, which was the non-null handle the request checked.
C19_ValidationFirst ==
    /\ (/\ resp.op = "POST"
        /\ ~Truthy(resp.number) \/ ~Truthy(resp.message)
        /\ ~resp.ctx.handle) => resp.status = 400
    /\ \A i \in 1..Len(sends) :
            /\ sends[i].conn \in Conns
            /\ connState[sends[i].conn] # "none"
            /\ sends[i].ctx.handle

C19_Witness ==
    /\ resp.op = "POST"
    /\ resp.number = JsUndefined
    /\ Truthy(resp.message)
    /\ ~resp.ctx.handle
    /\ resp.status = 400

====
